---- MODULE Spec2Model ----
(***************************************************************************)
(* Line-oriented pattern counting of src/src/csv_parse.rs.                 *)
(*                                                                         *)
(* count_pattern_matches_from_file reads the source through one fixed      *)
(* buffer, searches every chunk for the pattern (memchr on the first byte, *)
(* then a comparison of the tail) and carries a trailing partial match to  *)
(* the next chunk.  count_pattern_matches_in_memory loads the whole source *)
(* and runs the same search once.                                          *)
(*                                                                         *)
(* The byte kernels of src/src/line_feed.rs, src/src/csv_state_machine.rs  *)
(* and src/src/json_escape_SWAR.rs are modelled as operators and as calls  *)
(* that run them step by step, each under its own specification.           *)
(*                                                                         *)
(* The buffer capacity is the parameter buffer_size of                     *)
(* count_pattern_with_buffer_size (benches/buffer_size_bench.rs), whose    *)
(* body is that of count_pattern_matches_from_file with BUFFER_SIZE        *)
(* replaced by the parameter.  Indices are 0-based as in the source; At    *)
(* and Slice translate to TLA+ sequences.                                  *)
(***************************************************************************)
EXTENDS Integers, Sequences, FiniteSets, TLC

VARIABLES
    call,         \* the function called: "from_file" or "in_memory" (the
                  \* scans of csv_parse.rs) or the name of a function of
                  \* line_feed.rs, csv_state_machine.rs, json_escape_SWAR.rs
    data,         \* the bytes of the source file, or the byte slice argument
    frame,        \* the other arguments and the locals of a function of
                  \* line_feed.rs, csv_state_machine.rs, json_escape_SWAR.rs
    pattern,      \* the pattern argument
    buffer_size,  \* capacity of the buffer (0: the call allocates none)
    build,        \* "debug": overflow checks on; "release": usize wraps
    pc,           \* position of the streaming scan
    pos,          \* read position of the file handle
    buffer,       \* the Vec<u8> of the streaming scan
    offset,       \* carry length, where the next read starts writing
    bytes_read,   \* filled length of the current chunk (carry + newly read)
    last_read,    \* the value the last file.read returned
    line_count,   \* matches counted so far
    reads,        \* number of file.read calls issued (saturating at MaxReads)
    result,       \* what the call returned
    io_error,     \* history: the error the file system raised, or "none"
    straddled     \* history: an occurrence of the pattern began in one
                  \* chunk and was completed by the next read

vars == << call, data, frame, pattern, buffer_size, build, pc, pos, buffer, offset,
           bytes_read, last_read, line_count, reads, result, io_error,
           straddled >>

----------------------------------------------------------------------------
(* Bounds of the model *)

MaxLen == 4
MaxPat == 3
MaxCap == 3
MaxReads == 8
UsizeBits == 16
MaxLfLen == 34
MaxK == 34
MaxJsonLen == 10
MaxCsvLen == 5
MaxPairLen == 2
MaxPairPat == 2
MaxPairCap == 2

(* Program constants *)

NL == 10

Alphabet == {97, 98, NL}

IoErrors == {"PermissionDenied", "Other"}

Builds == {"debug", "release"}

SeqsUpTo(S, n) == UNION {[1..k -> S] : k \in 0..n}

Min(a, b) == IF a <= b THEN a ELSE b

----------------------------------------------------------------------------
(* usize arithmetic *)

UsizeModulus == 2 ^ UsizeBits

\* a.saturating_sub(b)
SaturatingSub(a, b) == IF a >= b THEN a - b ELSE 0

\* a - b + 1 on usize in a release build: both operations wrap
WrappingSubAdd1(a, b) == (a - b + 1) % UsizeModulus

----------------------------------------------------------------------------
(* Results *)

NoResult == [kind |-> "None"]

Ok(c) == [kind |-> "Ok", count |-> c]

Err(e) == [kind |-> "Err", err |-> e]

Panic(m) == [kind |-> "Panic", msg |-> m]

----------------------------------------------------------------------------
(* Slices *)

\* buf[j], 0-based
At(buf, j) == buf[j + 1]

\* &buf[lo..hi], 0-based, hi exclusive
Slice(buf, lo, hi) == SubSeq(buf, lo + 1, hi)

\* vec![0u8; n]
ZeroVec(n) == [j \in 1..n |-> 0]

\* memchr::memchr(b, &buf[lo..hi]): position of the first b, relative to lo
MemchrHits(b, buf, lo, hi) == {j \in lo..(hi - 1) : At(buf, j) = b}

MemchrFound(b, buf, lo, hi) == MemchrHits(b, buf, lo, hi) # {}

Memchr(b, buf, lo, hi) ==
    LET hits == MemchrHits(b, buf, lo, hi)
    IN  (CHOOSE j \in hits : \A k \in hits : j <= k) - lo

\* pat.starts_with(s)
StartsWith(pat, s) ==
    /\ Len(s) <= Len(pat)
    /\ SubSeq(pat, 1, Len(s)) = s

\* a carry-over that leaves the bytes where they are
CopyWithinNothing(buf, lo, hi) == buf

\* buf.copy_within(lo..hi, 0)
CopyWithin(buf, lo, hi) ==
    [j \in 1..Len(buf) |-> IF j <= hi - lo THEN buf[lo + j] ELSE buf[j]]

\* the skip to the end of the line after a match, then one past it
RECURSIVE SkipToEndOfLine(_, _, _)
SkipToEndOfLine(buf, limit, i) ==
    IF i < limit /\ At(buf, i) # NL
    THEN SkipToEndOfLine(buf, limit, i + 1)
    ELSE i + 1

----------------------------------------------------------------------------
(* The search pass of one chunk, csv_parse.rs lines 63-85 *)

NoPanic == "none"

SearchDone(cnt) == [count |-> cnt, panic |-> NoPanic]

SearchPanic(cnt, m) == [count |-> cnt, panic |-> m]

\* a scan whose empty-pattern test never succeeds
IsEmptyNever(pat) == FALSE

\* pattern.is_empty()
IsEmpty(pat) == Len(pat) = 0

\* the comparison of line 72 at candidate j
TailMatches(buf, j, pat) == Slice(buf, j + 1, j + Len(pat)) = Tail(pat)

RECURSIVE SearchChunk(_, _, _, _, _, _)
SearchChunk(buf, br, pat, bld, i, cnt) ==
    IF i > SaturatingSub(br, Len(pat))
    THEN SearchDone(cnt)
    ELSE IF bld = "debug" /\ br < Len(pat)
    THEN SearchPanic(cnt, "attempt to subtract with overflow")
    ELSE LET end == WrappingSubAdd1(br, Len(pat))
         IN  IF i > end \/ end > Len(buf)
             THEN SearchPanic(cnt, "slice index out of range")
             ELSE IF ~MemchrFound(pat[1], buf, i, end)
             THEN SearchDone(cnt)
             ELSE LET j == i + Memchr(pat[1], buf, i, end)
                  IN  IF j + Len(pat) > Len(buf)
                      THEN SearchPanic(cnt, "slice index out of range")
                      ELSE IF TailMatches(buf, j, pat)
                      THEN SearchChunk(buf, br, pat, bld,
                                       SkipToEndOfLine(buf, br, j), cnt + 1)
                      ELSE SearchChunk(buf, br, pat, bld, j + 1, cnt)

----------------------------------------------------------------------------
(* The carry-over step, csv_parse.rs lines 88-95 *)

\* a boundary loop that starts one byte early, at bytes_read - pattern.len()
CarryCandidatesFromFullLength(buf, br, pat) ==
    {i \in SaturatingSub(br, Len(pat))..(br - 1) :
        StartsWith(pat, Slice(buf, i, br))}

\* the indices i of the for loop whose suffix buffer[i..bytes_read] is a
\* prefix of the pattern
CarryCandidates(buf, br, pat) ==
    {i \in SaturatingSub(br, Len(pat) - 1)..(br - 1) :
        StartsWith(pat, Slice(buf, i, br))}

\* a boundary loop that keeps the last index it finds
CarryStartLast(buf, br, pat) ==
    LET c == CarryCandidates(buf, br, pat)
    IN  CHOOSE i \in c : \A k \in c : i >= k

\* the first such index: the loop breaks there
CarryStart(buf, br, pat) ==
    LET c == CarryCandidates(buf, br, pat)
    IN  CHOOSE i \in c : \A k \in c : i <= k

----------------------------------------------------------------------------
(* The whole-buffer search, csv_parse.rs lines 119-143 *)

\* a tail comparison that is not guarded by the length of the data
FitsAtAlways(d, j, pat) == TRUE

\* the guard of line 128: the pattern fits into the data at candidate j
FitsAt(d, j, pat) == j + Len(pat) <= Len(d)

\* the loop of lines 122-141 from index i on; the slices data[i..] and
\* data[i + 1..i + pattern.len()] panic when they leave the data
RECURSIVE SearchDataRun(_, _, _, _)
SearchDataRun(d, pat, i, cnt) ==
    IF i > SaturatingSub(Len(d), Len(pat))
    THEN SearchDone(cnt)
    ELSE IF i > Len(d)
    THEN SearchPanic(cnt, "slice index out of range")
    ELSE IF ~MemchrFound(pat[1], d, i, Len(d))
    THEN SearchDone(cnt)
    ELSE LET j == i + Memchr(pat[1], d, i, Len(d))
         IN  IF ~FitsAt(d, j, pat)
             THEN SearchDataRun(d, pat, j + 1, cnt)
             ELSE IF j + Len(pat) > Len(d)
             THEN SearchPanic(cnt, "slice index out of range")
             ELSE IF TailMatches(d, j, pat)
             THEN SearchDataRun(d, pat, SkipToEndOfLine(d, Len(d), j),
                                cnt + 1)
             ELSE SearchDataRun(d, pat, j + 1, cnt)

\* line_count when the loop of lines 122-141 ends
SearchData(d, pat, i, cnt) == SearchDataRun(d, pat, i, cnt).count

----------------------------------------------------------------------------
(* Initial states: a call of one of the two functions on a source and a    *)
(* pattern                                                                 *)

Init ==
    /\ data \in SeqsUpTo(Alphabet, MaxLen)
    /\ pattern \in SeqsUpTo(Alphabet, MaxPat)
    /\ build \in Builds
    /\ \/ call = "from_file" /\ buffer_size \in 1..MaxCap
       \/ call = "in_memory" /\ buffer_size = 0
    /\ frame = << >>
    /\ pc = "start"
    /\ pos = 0
    /\ buffer = << >>
    /\ offset = 0
    /\ bytes_read = 0
    /\ last_read = 0
    /\ line_count = 0
    /\ reads = 0
    /\ result = NoResult
    /\ io_error = "none"
    /\ straddled = FALSE

Inputs == << call, data, pattern, buffer_size, build >>

ScanState == << pos, buffer, offset, bytes_read, last_read, line_count, reads >>

----------------------------------------------------------------------------
(* count_pattern_matches_from_file *)

\* lines 43-45
ReturnEmptyPattern ==
    /\ call = "from_file"
    /\ pc = "start"
    /\ IsEmpty(pattern)
    /\ pc' = "done"
    /\ result' = Ok(0)
    /\ UNCHANGED << Inputs, frame, ScanState, io_error, straddled >>

\* line 47, File::open fails: `?` returns the error
OpenFails ==
    /\ call = "from_file"
    /\ pc = "start"
    /\ ~IsEmpty(pattern)
    /\ \E e \in IoErrors : io_error' = e /\ result' = Err(e)
    /\ pc' = "done"
    /\ UNCHANGED << Inputs, frame, ScanState, straddled >>

\* lines 47-53; pattern[0] of line 52 panics on an empty pattern
OpenFile ==
    /\ call = "from_file"
    /\ pc = "start"
    /\ ~IsEmpty(pattern)
    /\ IF Len(pattern) = 0
       THEN /\ pc' = "done"
            /\ result' = Panic("index out of bounds")
            /\ UNCHANGED buffer
       ELSE /\ pc' = "read"
            /\ buffer' = ZeroVec(buffer_size)
            /\ UNCHANGED result
    /\ UNCHANGED << Inputs, frame, pos, offset, bytes_read, last_read, line_count,
                    reads, io_error, straddled >>

\* a read handed the whole buffer instead of buffer[offset..]
ReadSizesWholeBuffer ==
    LET remaining == Len(data) - pos
    IN  IF remaining = 0 THEN {0} ELSE 1..Min(buffer_size, remaining)

\* the sizes file.read(&mut buffer[offset..]) may return
ReadSizes ==
    LET free == buffer_size - offset
        remaining == Len(data) - pos
    IN  IF free = 0 \/ remaining = 0 THEN {0} ELSE 1..Min(free, remaining)

\* the size a read of a regular file returns
FullRead == Min(buffer_size - offset, Len(data) - pos)

CountRead == Min(reads + 1, MaxReads)

\* history: a read of n bytes completes an occurrence of the pattern whose
\* first k bytes, 1 <= k < pattern.len(), are the last k bytes of the chunk
\* searched before (the file bytes just before pos)
Straddles(n) ==
    \E k \in 1..(Len(pattern) - 1) :
        /\ k <= bytes_read
        /\ k <= pos
        /\ Len(pattern) - k <= n
        /\ Slice(data, pos - k, pos - k + Len(pattern)) = pattern

\* a scan that takes a failed read for the end of the stream
ReadFailsAsEndOfStream ==
    /\ pc = "read"
    /\ \E e \in IoErrors : io_error' = e
    /\ result' = Ok(line_count)
    /\ pc' = "done"
    /\ reads' = CountRead
    /\ UNCHANGED << Inputs, frame, pos, buffer, offset, bytes_read, last_read,
                    line_count, straddled >>

\* line 56, file.read fails: `?` returns the error
ReadFails ==
    /\ pc = "read"
    /\ \E e \in IoErrors : io_error' = e /\ result' = Err(e)
    /\ pc' = "done"
    /\ reads' = CountRead
    /\ UNCHANGED << Inputs, frame, pos, buffer, offset, bytes_read, last_read,
                    line_count, straddled >>

\* lines 56-60 (and 98 on break), file.read returns n
ReadReturns(n) ==
    /\ pc = "read"
    /\ last_read' = n
    /\ bytes_read' = n + offset
    /\ pos' = pos + n
    /\ buffer' = [j \in 1..buffer_size |->
                    IF j > offset /\ j <= offset + n
                    THEN data[pos + j - offset]
                    ELSE buffer[j]]
    /\ straddled' = (straddled \/ Straddles(n))
    /\ IF n + offset = 0
       THEN /\ pc' = "done"
            /\ result' = Ok(line_count)
            /\ UNCHANGED offset
       ELSE /\ pc' = "search"
            /\ offset' = 0
            /\ UNCHANGED result
    /\ reads' = CountRead
    /\ UNCHANGED << Inputs, frame, line_count, io_error >>

\* a read of any source: whatever size the Read contract allows
ReadChunk == \E n \in ReadSizes : ReadReturns(n)

\* a read of a regular file: as many bytes as fit or are left
ReadChunkFull == ReadReturns(FullRead)

\* lines 63-85
SearchPass ==
    /\ pc = "search"
    /\ LET r == SearchChunk(buffer, bytes_read, pattern, build, 0, 0)
       IN  /\ line_count' = line_count + r.count
           /\ IF r.panic = NoPanic
              THEN /\ pc' = "carry"
                   /\ UNCHANGED result
              ELSE /\ pc' = "done"
                   /\ result' = Panic(r.panic)
    /\ UNCHANGED << Inputs, frame, pos, buffer, offset, bytes_read, last_read,
                    reads, io_error, straddled >>

\* lines 88-95
CarryOver ==
    /\ pc = "carry"
    /\ IF CarryCandidates(buffer, bytes_read, pattern) = {}
       THEN UNCHANGED << buffer, offset >>
       ELSE LET i == CarryStart(buffer, bytes_read, pattern)
            IN  /\ buffer' = CopyWithin(buffer, i, bytes_read)
                /\ offset' = bytes_read - i
    /\ pc' = "read"
    /\ UNCHANGED << Inputs, frame, pos, bytes_read, last_read, line_count, reads,
                    result, io_error, straddled >>

\* the loop of lines 55-96 on a regular file, whose reads return
\* min(free, remaining) bytes: what the scan returns from the state (buf,
\* off, p, cnt) on, or NoResult when it has not returned after fuel reads
RECURSIVE FullReadLoop(_, _, _, _, _, _, _, _)
FullReadLoop(d, pat, bld, buf, off, p, cnt, fuel) ==
    IF fuel = 0
    THEN NoResult
    ELSE LET n == Min(Len(buf) - off, Len(d) - p)
             br == n + off
             chunk == [j \in 1..Len(buf) |->
                          IF j > off /\ j <= off + n
                          THEN d[p + j - off]
                          ELSE buf[j]]
             r == SearchChunk(chunk, br, pat, bld, 0, 0)
         IN  IF br = 0
             THEN Ok(cnt)
             ELSE IF r.panic # NoPanic
             THEN Panic(r.panic)
             ELSE IF CarryCandidates(chunk, br, pat) = {}
             THEN FullReadLoop(d, pat, bld, chunk, 0, p + n, cnt + r.count,
                               fuel - 1)
             ELSE LET i == CarryStart(chunk, br, pat)
                  IN  FullReadLoop(d, pat, bld, CopyWithin(chunk, i, br),
                                   br - i, p + n, cnt + r.count, fuel - 1)

\* what the scan of a non-empty pattern returns when every read fills the
\* buffer; a scan that returns does so within Len(d) + 2 reads
FullReadResult(d, pat, cap, bld) ==
    FullReadLoop(d, pat, bld, ZeroVec(cap), 0, 0, 0, Len(d) + 2)

----------------------------------------------------------------------------
(* count_pattern_matches_in_memory *)

\* what the search of lines 116-143 returns on the loaded data
InMemoryCount(d, pat) == SearchData(d, pat, 0, 0)

\* what count_pattern_matches_in_memory returns once the data is loaded
InMemoryResult(d, pat) ==
    LET run == SearchDataRun(d, pat, 0, 0)
    IN  IF run.panic # NoPanic THEN Panic(run.panic) ELSE Ok(run.count)

\* lines 109-111
MemReturnEmptyPattern ==
    /\ call = "in_memory"
    /\ pc = "start"
    /\ IsEmpty(pattern)
    /\ pc' = "done"
    /\ result' = Ok(0)
    /\ UNCHANGED << Inputs, frame, ScanState, io_error, straddled >>

\* line 114, std::fs::read fails: `?` returns the error
MemReadFails ==
    /\ call = "in_memory"
    /\ pc = "start"
    /\ ~IsEmpty(pattern)
    /\ \E e \in IoErrors : io_error' = e /\ result' = Err(e)
    /\ pc' = "done"
    /\ UNCHANGED << Inputs, frame, ScanState, straddled >>

\* lines 114-143; pattern[0] of line 116 panics on an empty pattern
MemScan ==
    /\ call = "in_memory"
    /\ pc = "start"
    /\ ~IsEmpty(pattern)
    /\ pc' = "done"
    /\ pos' = Len(data)
    /\ result' = IF Len(pattern) = 0
                 THEN Panic("index out of bounds")
                 ELSE InMemoryResult(data, pattern)
    /\ UNCHANGED << Inputs, frame, buffer, offset, bytes_read, last_read,
                    line_count, reads, io_error, straddled >>

----------------------------------------------------------------------------

Next ==
    \/ ReturnEmptyPattern
    \/ OpenFails
    \/ OpenFile
    \/ ReadFails
    \/ ReadChunk
    \/ SearchPass
    \/ CarryOver
    \/ MemReturnEmptyPattern
    \/ MemReadFails
    \/ MemScan

Spec == Init /\ [][Next]_vars

\* the scans of a regular file, whose reads fill the buffer up to the end
\* of the file
FileNext ==
    \/ ReturnEmptyPattern
    \/ OpenFails
    \/ OpenFile
    \/ ReadFails
    \/ ReadChunkFull
    \/ SearchPass
    \/ CarryOver
    \/ MemReturnEmptyPattern
    \/ MemReadFails
    \/ MemScan

FileSpec == Init /\ [][FileNext]_vars

----------------------------------------------------------------------------
(* What the scans are to compute: the lines of the source, delimited by    *)
(* NL, that contain the pattern                                            *)

Range(f) == {f[x] : x \in DOMAIN f}

\* the positions at which pat occurs in s
Occurrences(pat, s) ==
    {k \in 0..(Len(s) - Len(pat)) : Slice(s, k, k + Len(pat)) = pat}

Occurs(pat, s) == Occurrences(pat, s) # {}

\* the end (exclusive) of the line that starts at i
RECURSIVE LineEnd(_, _)
LineEnd(d, i) ==
    IF i >= Len(d) \/ At(d, i) = NL THEN i ELSE LineEnd(d, i + 1)

\* the number of lines of d from position i on that contain pat
RECURSIVE LinesContainingFrom(_, _, _)
LinesContainingFrom(d, pat, i) ==
    IF i >= Len(d)
    THEN 0
    ELSE LET e == LineEnd(d, i)
         IN  (IF Occurs(pat, Slice(d, i, e)) THEN 1 ELSE 0)
                 + LinesContainingFrom(d, pat, e + 1)

LinesContaining(d, pat) == LinesContainingFrom(d, pat, 0)

\* some line of d contains pat at two positions or more
RECURSIVE HasRepeatedLineFrom(_, _, _)
HasRepeatedLineFrom(d, pat, i) ==
    IF i >= Len(d)
    THEN FALSE
    ELSE LET e == LineEnd(d, i)
         IN  \/ Cardinality(Occurrences(pat, Slice(d, i, e))) >= 2
             \/ HasRepeatedLineFrom(d, pat, e + 1)

LinePattern == pattern # << >> /\ NL \notin Range(pattern)

\* the pattern is not longer than the buffer
PatternFits == Len(pattern) <= buffer_size

\* the streaming scan of a pattern that fits the buffer came to its end
\* without an I/O failure
StreamingEnded ==
    /\ call = "from_file"
    /\ pc = "done"
    /\ io_error = "none"
    /\ PatternFits

\* a read returned 0 at the end of the source while bytes were carried
DanglingCarryAtEof ==
    /\ reads > 0
    /\ last_read = 0
    /\ pos = Len(data)
    /\ bytes_read > 0

----------------------------------------------------------------------------
(* Claims *)

\* C1: for a non-empty pattern without NL, the streaming scan returns the
\* number of NL-delimited lines of the source that contain the pattern,
\* whatever the length of the source relative to the buffer capacity.
C1_StreamingCountsLines ==
    (StreamingEnded /\ LinePattern)
        => result = Ok(LinesContaining(data, pattern))

\* C2: for every input and non-empty pattern the streaming scan returns what
\* the whole-buffer scan returns on the same input.
C2_StreamingEqualsInMemory ==
    (StreamingEnded /\ pattern # << >>)
        => result = Ok(InMemoryCount(data, pattern))

\* C3: a line that contains the pattern more than once adds exactly 1 to
\* the count of the streaming scan, wherever the chunk boundaries fall.
C3_RepeatedLineCountedOnce ==
    (StreamingEnded /\ LinePattern /\ result.kind = "Ok"
        /\ HasRepeatedLineFrom(data, pattern, 0))
        => result.count = LinesContaining(data, pattern)

\* C4: when an occurrence of the pattern has its first k bytes,
\* 1 <= k < pattern.len(), at the end of one chunk and the rest in the next
\* read, the streaming scan returns what the scan of the unsplit bytes
\* returns.
C4_StraddlingCountedOnce ==
    (StreamingEnded /\ pattern # << >> /\ straddled)
        => result = Ok(InMemoryCount(data, pattern))

\* C5: once a read has returned 0 bytes at the end of the source, the read
\* loop is not entered again with a non-zero carry.
C5_NoLoopAfterEndOfStream ==
    ~(pc = "read" /\ PatternFits /\ DanglingCarryAtEof /\ offset > 0)

\* C6: when the stream ends while the carry holds a proper prefix of the
\* pattern, the streaming scan returns Ok with the matches counted so far.
C6_DanglingCarryDropped ==
    (StreamingEnded /\ DanglingCarryAtEof) => result = Ok(line_count)

\* C7: a pattern longer than the buffer capacity is rejected with an
\* InvalidPattern error before the first read: no read is issued and no
\* count is returned.
C7_LongPatternRejected ==
    (call = "from_file" /\ Len(pattern) > buffer_size)
        => /\ reads = 0
           /\ pc = "done" => result.kind \in {"InvalidPattern", "Err"}

\* C8: if a read (or the open) of the streaming scan fails, the scan is over
\* at that call and returns that error, whatever it has counted before.
C8_ReadErrorReturned ==
    (call = "from_file" /\ io_error # "none")
        => pc = "done" /\ result = Err(io_error)

\* C8 witness: a read failed after matches had been counted.
C8_Witness ==
    /\ call = "from_file"
    /\ io_error # "none"
    /\ reads >= 2
    /\ line_count > 0
    /\ result = Err(io_error)

\* C9: for an empty pattern both scans return Ok(0) for every input, and
\* no I/O is attempted that could fail.
C9_EmptyPatternOkZero ==
    pattern = << >>
        => /\ io_error = "none"
           /\ reads = 0
           /\ pc = "done" => result = Ok(0)

\* C9 witness: a scan of a non-empty source with the empty pattern returned.
C9_Witness ==
    /\ pattern = << >>
    /\ Occurs(<< NL >>, data)
    /\ pc = "done"
    /\ result = Ok(0)

\* C10: for an input without any occurrence of the non-empty pattern, the
\* streaming scan returns Ok(0).
C10_NoMatchOkZero ==
    (StreamingEnded /\ pattern # << >> /\ ~Occurs(pattern, data))
        => result = Ok(0)

\* C11: the buffer is allocated once with the capacity and its length never
\* changes; at every read the filled length is the carry plus the bytes
\* newly read and is at most the capacity.
C11_FilledWithinCapacity ==
    [][/\ pc # "start" => Len(buffer') = buffer_size /\ buffer_size' = buffer_size
       /\ (pc = "read" /\ io_error' = "none")
            => /\ bytes_read' = offset + last_read'
               /\ bytes_read' <= buffer_size]_vars

\* C11 witness: a read filled the buffer to its capacity behind a carry.
C11_Witness ==
    /\ pc = "search"
    /\ last_read > 0
    /\ last_read < bytes_read
    /\ bytes_read = buffer_size
    /\ Len(buffer) = buffer_size
    /\ Len(data) > buffer_size

\* C16: in every search pass the first-byte range is computed without
\* underflow (bytes_read >= pattern.len()) and no slice leaves the buffer,
\* also for a chunk that is shorter than the pattern.
C16_SearchIndicesInBounds ==
    (call = "from_file" /\ pc = "search" /\ PatternFits)
        => /\ bytes_read >= Len(pattern)
           /\ SearchChunk(buffer, bytes_read, pattern, build, 0, 0).panic
                  = NoPanic

\* C17: the result of the streaming scan does not depend on the sizes of
\* the reads: whatever sizes the reads return, the scan returns what it
\* returns when every read fills the buffer.
C17_ReadSizesDoNotMatter ==
    (StreamingEnded /\ pattern # << >>)
        => result = FullReadResult(data, pattern, buffer_size, build)

\* a suffix of at most pattern.len() - 1 bytes of the chunk in buf[0..br]
\* that is a prefix of pat
SuffixIsPrefix(buf, br, pat, k) ==
    /\ k >= 1
    /\ k <= br
    /\ k <= Len(pat) - 1
    /\ Slice(buf, br - k, br) = Slice(pat, 0, k)

\* C18: after the carry-over step 0 <= carry < pattern.len() and carry <=
\* filled, and the next read writes its bytes from buffer[carry] on, behind
\* the carried bytes.
C18_CarryBounded ==
    [][/\ pc = "carry"
            => offset' >= 0 /\ offset' < Len(pattern) /\ offset' <= bytes_read
       /\ (pc = "read" /\ pc' = "search")
            => /\ Slice(buffer', offset, offset + last_read')
                    = Slice(data, pos, pos + last_read')
               /\ Slice(buffer', 0, offset) = Slice(buffer, 0, offset)]_vars

\* C18 witness: a read wrote its bytes behind a carry of pattern.len() - 1.
C18_Witness ==
    /\ pc = "search"
    /\ Len(pattern) >= 2
    /\ PatternFits
    /\ last_read > 0
    /\ bytes_read - last_read = Len(pattern) - 1

\* C19: after the carry-over step, a non-zero carry is the last carry bytes
\* of the chunk just searched, moved to buffer[0..carry], and equals
\* pattern[0..carry]; when no suffix of the last pattern.len() - 1 bytes is a
\* prefix of the pattern, carry = 0 and the buffer is left as it is.
C19_CarryIsChunkSuffix ==
    [][pc = "carry"
        => /\ offset' > 0
                => /\ Slice(buffer', 0, offset')
                        = Slice(buffer, bytes_read - offset', bytes_read)
                   /\ Slice(buffer', 0, offset') = Slice(pattern, 0, offset')
           /\ (\A k \in 1..Len(pattern) :
                    ~SuffixIsPrefix(buffer, bytes_read, pattern, k))
                => offset' = 0 /\ buffer' = buffer]_vars

\* C19 witness: a carry was moved from the end of a longer chunk.
C19_Witness ==
    /\ pc = "read"
    /\ PatternFits
    /\ offset > 0
    /\ bytes_read > offset
    /\ pos < Len(data)

\* C20: for a non-empty pattern without '\n' the whole-buffer scan returns
\* exactly the number of '\n'-delimited lines of the data that contain the
\* pattern, also on empty data and on data shorter than the pattern, and
\* every index it uses is within the loaded data.
C20_InMemoryCountsLines ==
    (call = "in_memory" /\ pc = "done" /\ io_error = "none" /\ LinePattern)
        => /\ result = Ok(LinesContaining(data, pattern))
           /\ SearchDataRun(data, pattern, 0, 0).panic = NoPanic

\* C20 witness: the whole-buffer scan counted two lines, one of them
\* without a final '\n'.
C20_Witness ==
    /\ call = "in_memory"
    /\ pc = "done"
    /\ io_error = "none"
    /\ LinePattern
    /\ data # << >>
    /\ data[Len(data)] # NL
    /\ result = Ok(2)

----------------------------------------------------------------------------
(* The scanner's variables do not move in the calls of the byte kernels *)

ScannerVars ==
    << pattern, buffer_size, build, pos, buffer, offset, bytes_read,
       last_read, line_count, reads, io_error, straddled >>

ScannerIdle ==
    /\ pattern = << >>
    /\ buffer_size = 0
    /\ build = "release"
    /\ pos = 0
    /\ buffer = << >>
    /\ offset = 0
    /\ bytes_read = 0
    /\ last_read = 0
    /\ line_count = 0
    /\ reads = 0
    /\ io_error = "none"
    /\ straddled = FALSE

\* a returned Vec<u8>
Bytes(b) == [kind |-> "Bytes", bytes |-> b]

\* an execution with undefined behaviour that did not return the bytes
Undefined(m) == [kind |-> "Undefined", msg |-> m]

----------------------------------------------------------------------------
(* insert_line_feed_scalar, line_feed.rs lines 206-226 *)

\* a loop that stops before a final group that ends the buffer
ScalarHasGroupBeforeEnd(buf, k, ip) == ip + k < Len(buf)

\* the loop guard of line 217
ScalarHasGroup(buf, k, ip) == ip + k <= Len(buf)

\* the locals after lines 211-215
ScalarStart(k) == [k |-> k, input_pos |-> 0, output |-> << >>]

\* one iteration of the loop, lines 218-220
ScalarGroup(buf, f) ==
    [f EXCEPT !.output = f.output
                            \o Slice(buf, f.input_pos, f.input_pos + f.k)
                            \o << NL >>,
              !.input_pos = f.input_pos + f.k]

\* lines 223-225
ScalarFinish(buf, f) == f.output \o Slice(buf, f.input_pos, Len(buf))

RECURSIVE ScalarLoop(_, _)
ScalarLoop(buf, f) ==
    IF ScalarHasGroup(buf, f.k, f.input_pos)
    THEN ScalarLoop(buf, ScalarGroup(buf, f))
    ELSE ScalarFinish(buf, f)

\* insert_line_feed_scalar(buffer, k)
insert_line_feed_scalar(buf, k) ==
    IF k = 0 THEN buf ELSE ScalarLoop(buf, ScalarStart(k))

\* the buffers of the calls: n bytes that count up from s, modulo 256
Ramp(n, s) == [i \in 1..n |-> (s + i - 1) % 256]

RampStarts == {0, 250}

LfBuffers == {Ramp(n, s) : n \in 0..MaxLfLen, s \in RampStarts}

LineFeedCalls == {"insert_line_feed_scalar", "insert_line_feed_neon"}

LineFeedInit ==
    /\ call \in LineFeedCalls
    /\ data \in LfBuffers
    /\ \E k \in 0..MaxK : frame = [k |-> k]
    /\ pc = "start"
    /\ result = NoResult
    /\ ScannerIdle

\* lines 207-209 and 237-239: k == 0 returns buffer.to_vec()
LfReturnCopy ==
    /\ call \in LineFeedCalls
    /\ pc = "start"
    /\ frame.k = 0
    /\ pc' = "done"
    /\ result' = Bytes(data)
    /\ UNCHANGED << call, data, frame, ScannerVars >>

\* lines 211-215
ScalarEnter ==
    /\ call = "insert_line_feed_scalar"
    /\ pc = "start"
    /\ frame.k # 0
    /\ pc' = "loop"
    /\ frame' = ScalarStart(frame.k)
    /\ UNCHANGED << call, data, result, ScannerVars >>

\* lines 217-221
ScalarIterate ==
    /\ call = "insert_line_feed_scalar"
    /\ pc = "loop"
    /\ ScalarHasGroup(data, frame.k, frame.input_pos)
    /\ frame' = ScalarGroup(data, frame)
    /\ UNCHANGED << call, data, pc, result, ScannerVars >>

\* lines 223-225
ScalarReturn ==
    /\ call = "insert_line_feed_scalar"
    /\ pc = "loop"
    /\ ~ScalarHasGroup(data, frame.k, frame.input_pos)
    /\ pc' = "done"
    /\ result' = Bytes(ScalarFinish(data, frame))
    /\ UNCHANGED << call, data, frame, ScannerVars >>

----------------------------------------------------------------------------
(* NEON intrinsics on 16-lane byte vectors, lane i of the register at      *)
(* index i + 1                                                             *)

Lanes == 1..16

\* vdupq_n_u8(b)
Vdupq(b) == [i \in Lanes |-> b]

\* vcombine_u8(vcreate_u8(0x0706050403020100), vcreate_u8(0x0F0E0D0C0B0A0908))
Identity == [i \in Lanes |-> i - 1]

\* vceqq_u8(a, b): 0xFF in the lanes that are equal, 0 in the others
Vceqq(a, b) == [i \in Lanes |-> IF a[i] = b[i] THEN 255 ELSE 0]

\* vqtbl1q_u8(t, idx): table lookup, 0 for an index outside 0..15
Vqtbl1q(t, idx) == [i \in Lanes |-> IF idx[i] < 16 THEN t[idx[i] + 1] ELSE 0]

\* vbslq_u8(mask, a, b) for a mask whose lanes are 0xFF or 0: the bitwise
\* select is then a select of lanes
Vbslq(mask, a, b) == [i \in Lanes |-> IF mask[i] = 255 THEN a[i] ELSE b[i]]

\* vextq_u8(a, b, n): the last 16 - n lanes of a, then the first n of b
Vextq(a, b, n) ==
    [i \in Lanes |-> IF i + n <= 16 THEN a[i + n] ELSE b[i + n - 16]]

\* SHUFFLE_MASKS_NEON[n], lines 61-78
SHUFFLE_MASKS_NEON(n) ==
    [i \in Lanes |-> IF i - 1 < n THEN i - 1
                     ELSE IF i - 1 = n THEN 255
                     ELSE i - 2]

\* what a load finds in the bytes behind the end of the slice
Garbage == {0, 255}

\* a byte of the allocation of the output that was never written
Uninit == -1

NoUb == "none"

\* vld1q_u8(buf.as_ptr().add(p)): the 16 bytes from p on; the bytes behind
\* the end of the slice are g
Vld1q(buf, p, g) ==
    [i \in Lanes |-> IF p + i <= Len(buf) THEN buf[p + i] ELSE g]

\* the load of 16 bytes at p stays inside the slice
LoadInBounds(buf, p) == p + 16 <= Len(buf)

\* vst1q_u8(out.as_mut_ptr().add(p), v), as far as the allocation reaches
Vst1q(out, p, v) ==
    [j \in 1..Len(out) |-> IF j > p /\ j <= p + 16 THEN v[j - p] ELSE out[j]]

\* *out.as_mut_ptr().add(p) = b
StoreByte(out, p, b) ==
    [j \in 1..Len(out) |-> IF j = p + 1 THEN b ELSE out[j]]

\* a store of n bytes at p stays inside the allocation
StoreInBounds(out, p, n) == p + n <= Len(out)

----------------------------------------------------------------------------
(* insert_line_feed_neon, line_feed.rs lines 236-366 *)

\* the locals after lines 241-249: the Vec has the capacity output_len
NeonStart(buf, k) ==
    [k |-> k,
     input_pos |-> 0,
     output_pos |-> 0,
     output |-> [j \in 1..(Len(buf) + Len(buf) \div k) |-> Uninit],
     ub |-> NoUb]

\* line 260: upper is loaded when input_pos + 16 < buffer.len()
LoadsUpper(buf, f) == f.input_pos + 16 < Len(buf)

\* the loads and stores of one iteration of the fast path stay inside the
\* slice and inside the allocation
ShuffleInBounds(buf, f) ==
    /\ LoadInBounds(buf, f.input_pos)
    /\ LoadsUpper(buf, f) => LoadInBounds(buf, f.input_pos + 16)
    /\ StoreInBounds(f.output, f.output_pos, IF f.k = 32 THEN 33 ELSE 32)

\* the two registers an iteration of the fast path stores, lines 259-301
ShuffleRegisters(buf, f, g) ==
    LET lower == Vld1q(buf, f.input_pos, g)
        upper == IF LoadsUpper(buf, f)
                 THEN Vld1q(buf, f.input_pos + 16, g)
                 ELSE Vdupq(0)
        line_feed_vector == Vdupq(NL)
    IN  IF f.k = 32
        THEN << lower, upper >>
        ELSE IF f.k >= 16
        THEN LET maskhi == SHUFFLE_MASKS_NEON(f.k - 16)
             IN  << Vbslq(Vceqq(Identity, Vdupq(255)), line_feed_vector,
                          Vqtbl1q(lower, Identity)),
                    Vbslq(Vceqq(maskhi, Vdupq(255)), line_feed_vector,
                          Vqtbl1q(upper, maskhi)) >>
        ELSE LET shifted_upper == Vextq(lower, upper, 15)
                 masklo == SHUFFLE_MASKS_NEON(f.k)
             IN  << Vbslq(Vceqq(masklo, Vdupq(255)), line_feed_vector,
                          Vqtbl1q(lower, masklo)),
                    Vbslq(Vceqq(Identity, Vdupq(255)), line_feed_vector,
                          Vqtbl1q(shifted_upper, Identity)) >>

\* one iteration of the fast path (k <= 32), lines 252-308
ShuffleGroup(buf, f, g) ==
    LET regs == ShuffleRegisters(buf, f, g)
        stored == Vst1q(Vst1q(f.output, f.output_pos, regs[1]),
                        f.output_pos + 16, regs[2])
    IN  [f EXCEPT
            !.output = IF f.k = 32
                       THEN StoreByte(stored, f.output_pos + 32, NL)
                       ELSE stored,
            !.output_pos = f.output_pos + f.k + 1,
            !.input_pos = f.input_pos + f.k,
            !.ub = IF ShuffleInBounds(buf, f) THEN f.ub
                   ELSE "load or store outside the buffers"]

\* the copy of 32 bytes at a time, lines 325-337
RECURSIVE BulkCopy(_, _, _, _)
BulkCopy(buf, f, remaining, g) ==
    IF remaining < 32
    THEN << f, remaining >>
    ELSE LET lower == Vld1q(buf, f.input_pos, g)
             upper == Vld1q(buf, f.input_pos + 16, g)
             ok == /\ LoadInBounds(buf, f.input_pos + 16)
                   /\ StoreInBounds(f.output, f.output_pos, 32)
         IN  BulkCopy(buf,
                      [f EXCEPT
                          !.output = Vst1q(Vst1q(f.output, f.output_pos,
                                                 lower),
                                           f.output_pos + 16, upper),
                          !.output_pos = f.output_pos + 32,
                          !.input_pos = f.input_pos + 32,
                          !.ub = IF ok THEN f.ub
                                 ELSE "load or store outside the buffers"],
                      remaining - 32, g)

\* std::ptr::copy_nonoverlapping of n bytes, lines 345-349
CopyNonoverlapping(buf, ip, out, op, n) ==
    [j \in 1..Len(out) |-> IF j > op /\ j <= op + n
                            THEN buf[ip + j - op]
                            ELSE out[j]]

\* one iteration of the slow path (k > 32), lines 309-356
BulkGroup(buf, f, g) ==
    LET copied == BulkCopy(buf, f, f.k, g)
        c == copied[1]
        remaining == copied[2]
        ok == StoreInBounds(c.output, c.output_pos, remaining + 1)
    IN  [c EXCEPT
            !.output = StoreByte(CopyNonoverlapping(buf, c.input_pos,
                                                    c.output, c.output_pos,
                                                    remaining),
                                 c.output_pos + remaining, NL),
            !.output_pos = c.output_pos + remaining + 1,
            !.input_pos = c.input_pos + remaining,
            !.ub = IF ok THEN c.ub
                   ELSE "load or store outside the buffers"]

\* one iteration of the loop of line 251
NeonGroup(buf, f, g) ==
    IF f.k <= 32 THEN ShuffleGroup(buf, f, g) ELSE BulkGroup(buf, f, g)

\* lines 359-365: set_len(output_pos), then the leftover bytes
NeonFinish(buf, f) ==
    Slice(f.output, 0, f.output_pos) \o Slice(buf, f.input_pos, Len(buf))

\* lines 241-249
NeonEnter ==
    /\ call = "insert_line_feed_neon"
    /\ pc = "start"
    /\ frame.k # 0
    /\ pc' = "loop"
    /\ frame' = NeonStart(data, frame.k)
    /\ UNCHANGED << call, data, result, ScannerVars >>

\* lines 251-357, one iteration
NeonIterate ==
    /\ call = "insert_line_feed_neon"
    /\ pc = "loop"
    /\ frame.input_pos + frame.k <= Len(data)
    /\ \E g \in Garbage : frame' = NeonGroup(data, frame, g)
    /\ UNCHANGED << call, data, pc, result, ScannerVars >>

\* lines 359-365
NeonReturn ==
    /\ call = "insert_line_feed_neon"
    /\ pc = "loop"
    /\ ~(frame.input_pos + frame.k <= Len(data))
    /\ pc' = "done"
    /\ result' = Bytes(NeonFinish(data, frame))
    /\ UNCHANGED << call, data, frame, ScannerVars >>

\* a load or store of lines 259-304 left the slice or the allocation: the
\* behaviour is undefined, and one outcome is that the call does not return
\* its bytes (corrupted heap, fault)
NeonUndefined ==
    /\ call = "insert_line_feed_neon"
    /\ pc = "loop"
    /\ frame.ub # NoUb
    /\ pc' = "done"
    /\ result' = Undefined(frame.ub)
    /\ UNCHANGED << call, data, frame, ScannerVars >>

LineFeedNext ==
    \/ LfReturnCopy
    \/ ScalarEnter
    \/ ScalarIterate
    \/ ScalarReturn
    \/ NeonEnter
    \/ NeonIterate
    \/ NeonReturn
    \/ NeonUndefined

LineFeedSpec == LineFeedInit /\ [][LineFeedNext]_vars

\* buffer with '\n' after every complete group of k bytes
WithLineFeeds(buf, k) ==
    [j \in 1..(Len(buf) + Len(buf) \div k) |->
        IF j % (k + 1) = 0 THEN NL ELSE buf[j - j \div (k + 1)]]

\* C14: for every buffer and every k, insert_line_feed_neon returns the
\* bytes insert_line_feed_scalar returns.
C14_NeonEqualsScalar ==
    (call = "insert_line_feed_neon" /\ pc = "done")
        => result = Bytes(insert_line_feed_scalar(data, frame.k))

\* C15: insert_line_feed_scalar(buffer, k) with k > 0 returns the buffer
\* with a '\n' after every complete group of k bytes, also after the last
\* group of a buffer whose length is a multiple of k, and none after an
\* incomplete final group: len + len / k bytes; with k = 0 it returns the
\* buffer unchanged.
C15_ScalarInsertsLineFeeds ==
    (call = "insert_line_feed_scalar" /\ pc = "done")
        => /\ result.kind = "Bytes"
           /\ frame.k = 0 => result.bytes = data
           /\ frame.k > 0
                => /\ result.bytes = WithLineFeeds(data, frame.k)
                   /\ Len(result.bytes) = Len(data) + Len(data) \div frame.k

\* C15 witness: a buffer of two complete groups returned with a '\n' at its
\* end.
C15_Witness ==
    /\ call = "insert_line_feed_scalar"
    /\ pc = "done"
    /\ frame.k > 1
    /\ Len(data) = 2 * frame.k
    /\ Len(result.bytes) = Len(data) + 2
    /\ result.bytes[Len(result.bytes)] = NL

----------------------------------------------------------------------------
(* u64 words as 8 byte lanes, lane j of the word (bits 8j..8j+7) at index  *)
(* j + 1; u64::from_le_bytes puts buffer[i + j] into lane j                *)

WordLanes == 1..8

\* the bit operation op on the low n bits of a and b
RECURSIVE Bitwise(_, _, _, _)
Bitwise(op, a, b, n) ==
    IF n = 0
    THEN 0
    ELSE LET x == a % 2
             y == b % 2
             bit == CASE op = "and" -> x * y
                      [] op = "or" -> IF x + y > 0 THEN 1 ELSE 0
                      [] op = "xor" -> (x + y) % 2
         IN  bit + 2 * Bitwise(op, a \div 2, b \div 2, n - 1)

\* a u64 constant whose 8 bytes are c (0x2020202020202020 for c = 0x20)
Splat(c) == [j \in WordLanes |-> c]

\* x & y
WordAnd(x, y) == [j \in WordLanes |-> Bitwise("and", x[j], y[j], 8)]

\* x | y
WordOr(x, y) == [j \in WordLanes |-> Bitwise("or", x[j], y[j], 8)]

\* x ^ y
WordXor(x, y) == [j \in WordLanes |-> Bitwise("xor", x[j], y[j], 8)]

\* !x
WordNot(x) == [j \in WordLanes |-> 255 - x[j]]

\* the lanes j.. of x.wrapping_sub(y) with the borrow of the lanes below;
\* the borrow out of lane 7 is dropped
RECURSIVE SubLanes(_, _, _, _)
SubLanes(x, y, j, borrow) ==
    IF j > 8
    THEN << >>
    ELSE LET d == x[j] - y[j] - borrow
         IN  << (d + 256) % 256 >>
                 \o SubLanes(x, y, j + 1, IF d < 0 THEN 1 ELSE 0)

\* x.wrapping_sub(y)
WrappingSub(x, y) == SubLanes(x, y, 1, 0)

\* u64::from_le_bytes([buffer[i], ..., buffer[i + 7]]), lines 248-257
FromLeBytes(buf, i) == [j \in WordLanes |-> buf[i + j]]

----------------------------------------------------------------------------
(* json_escape_SWAR.rs *)

\* needs_json_escape_scalar, lines 79-81
needs_json_escape_scalar(byte) == byte < 32 \/ byte = 34 \/ byte = 92

\* has_json_escapable_byte_scalar, lines 84-86
has_json_escapable_byte_scalar(buf) ==
    \E j \in 1..Len(buf) : needs_json_escape_scalar(buf[j])

\* a mask that keeps the high bit of every lane
EveryLaneMask(x) == Splat(128)

\* line 138: the high bit of the lanes whose byte is below 128
is_ascii(x) == WordAnd(Splat(128), WordNot(x))

\* the same without the test for 92
SwarWithoutBackslash(x) ==
    LET lt32 == WrappingSub(x, Splat(32))
        sub34 == WordXor(x, Splat(34))
        eq34 == WrappingSub(sub34, Splat(1))
    IN  WordAnd(WordOr(lt32, eq34), is_ascii(x)) # Splat(0)

\* has_json_escapable_byte_swar, lines 119-238
has_json_escapable_byte_swar(x) ==
    LET lt32 == WrappingSub(x, Splat(32))
        sub34 == WordXor(x, Splat(34))
        eq34 == WrappingSub(sub34, Splat(1))
        sub92 == WordXor(x, Splat(92))
        eq92 == WrappingSub(sub92, Splat(1))
    IN  WordAnd(WordOr(WordOr(lt32, eq34), eq92), is_ascii(x)) # Splat(0)

\* a returned bool
Bool(b) == [kind |-> "Bool", value |-> b]

\* the bytes of the buffers: the bytes around 32, 34 and 92, the same with
\* the high bit set, and the ends of the byte range
JsonBytes == {0, 31, 32, 33, 34, 35, 91, 92, 93, 127, 128, 159, 160, 162,
              220, 255}

\* the bytes a buffer is filled with
JsonFills == {32, 35, 93, 162}

\* n bytes bg with the bytes v and w at the indices p and q
Filled(n, bg, p, v, q, w) ==
    [j \in 1..n |-> IF j = p THEN v ELSE IF j = q THEN w ELSE bg]

JsonBuffers ==
    {<< >>} \cup
    {Filled(n, bg, p, v, q, w) :
        n \in 1..MaxJsonLen, bg \in JsonFills, p \in {1, 2, 7, 8, 9},
        v \in JsonBytes, q \in {3, 8, 10}, w \in JsonBytes}

\* the words has_json_escapable_byte_swar is called with, as their 8 bytes
\* from the lowest: a fill byte and any two bytes at any two lanes
JsonWords ==
    {Filled(8, bg, p, v, q, w) :
        bg \in JsonFills, p \in WordLanes, v \in JsonBytes,
        q \in WordLanes, w \in JsonBytes}

JsonCalls ==
    {"has_json_escapable_byte", "has_json_escapable_byte_scalar",
     "has_json_escapable_byte_swar"}

JsonInit ==
    /\ call \in JsonCalls
    /\ IF call = "has_json_escapable_byte_swar"
       THEN data \in JsonWords
       ELSE data \in JsonBuffers
    /\ frame = [i |-> 0]
    /\ pc = "start"
    /\ result = NoResult
    /\ ScannerIdle

\* has_json_escapable_byte_scalar, lines 84-86
JsonScalar ==
    /\ call = "has_json_escapable_byte_scalar"
    /\ pc = "start"
    /\ pc' = "done"
    /\ result' = Bool(has_json_escapable_byte_scalar(data))
    /\ UNCHANGED << call, data, frame, ScannerVars >>

\* has_json_escapable_byte, lines 247-264: one iteration of the loop
JsonChunk ==
    /\ call = "has_json_escapable_byte"
    /\ pc = "start"
    /\ frame.i + 8 <= Len(data)
    /\ IF has_json_escapable_byte_swar(FromLeBytes(data, frame.i))
       THEN /\ pc' = "done"
            /\ result' = Bool(TRUE)
            /\ UNCHANGED frame
       ELSE /\ frame' = [frame EXCEPT !.i = frame.i + 8]
            /\ UNCHANGED << pc, result >>
    /\ UNCHANGED << call, data, ScannerVars >>

\* has_json_escapable_byte, line 267: the remaining bytes
JsonTail ==
    /\ call = "has_json_escapable_byte"
    /\ pc = "start"
    /\ ~(frame.i + 8 <= Len(data))
    /\ pc' = "done"
    /\ result' = Bool(\E j \in (frame.i + 1)..Len(data) :
                         needs_json_escape_scalar(data[j]))
    /\ UNCHANGED << call, data, frame, ScannerVars >>

\* has_json_escapable_byte_swar(x), lines 119-238, x the word whose bytes
\* from the lowest are data
JsonSwar ==
    /\ call = "has_json_escapable_byte_swar"
    /\ pc = "start"
    /\ pc' = "done"
    /\ result' = Bool(has_json_escapable_byte_swar(FromLeBytes(data, 0)))
    /\ UNCHANGED << call, data, frame, ScannerVars >>

JsonNext ==
    \/ JsonSwar
    \/ JsonScalar
    \/ JsonChunk
    \/ JsonTail

JsonSpec == JsonInit /\ [][JsonNext]_vars

\* C13: for every buffer of every length, has_json_escapable_byte (8-byte
\* SWAR chunks, scalar for the remaining bytes) returns the boolean
\* has_json_escapable_byte_scalar returns.
C13_SwarEqualsScalar ==
    (call = "has_json_escapable_byte" /\ pc = "done")
        => result = Bool(has_json_escapable_byte_scalar(data))

\* C13 witness: a buffer of a full chunk and a remainder without escapable
\* byte but with bytes above 127 in the chunk was searched to its end.
C13_Witness ==
    /\ call = "has_json_escapable_byte"
    /\ pc = "done"
    /\ Len(data) > 8
    /\ frame.i = 8
    /\ \E j \in 1..8 : data[j] >= 160
    /\ result = Bool(FALSE)

----------------------------------------------------------------------------
(* csv_state_machine.rs: the table-driven parser and the if/else parser *)

Comma == 44
Quote == 34
Sentinel == 0
RegularByte == 97

CsvAlphabet == {Comma, NL, Quote, Sentinel, RegularByte}

\* classify_byte, lines 79-87
classify_byte(b) ==
    CASE b = Comma -> 0
      [] b = NL -> 1
      [] b = Quote -> 2
      [] b = Sentinel -> 3
      [] OTHER -> 4

\* a table whose state Quoted takes ',' and '\n' as separators
TransitionsSplitInQuotes ==
    [FieldStart |->
        << << "FieldStart", 1 >>, << "FieldStart", 2 >>, << "Quoted", 0 >>,
           << "End", 0 >>, << "Unquoted", 0 >> >>,
     Unquoted |->
        << << "FieldStart", 1 >>, << "FieldStart", 2 >>, << "Unquoted", 0 >>,
           << "End", 2 >>, << "Unquoted", 0 >> >>,
     Quoted |->
        << << "FieldStart", 1 >>, << "FieldStart", 2 >>,
           << "QuoteInQuoted", 0 >>, << "End", 0 >>, << "Quoted", 0 >> >>,
     QuoteInQuoted |->
        << << "FieldStart", 1 >>, << "FieldStart", 2 >>, << "Quoted", 0 >>,
           << "End", 2 >>, << "Unquoted", 0 >> >>]

\* TRANSITIONS[state][class], lines 91-124, as << next_state, action >>
TRANSITIONS ==
    [FieldStart |->
        << << "FieldStart", 1 >>, << "FieldStart", 2 >>, << "Quoted", 0 >>,
           << "End", 0 >>, << "Unquoted", 0 >> >>,
     Unquoted |->
        << << "FieldStart", 1 >>, << "FieldStart", 2 >>, << "Unquoted", 0 >>,
           << "End", 2 >>, << "Unquoted", 0 >> >>,
     Quoted |->
        << << "Quoted", 0 >>, << "Quoted", 0 >>, << "QuoteInQuoted", 0 >>,
           << "End", 0 >>, << "Quoted", 0 >> >>,
     QuoteInQuoted |->
        << << "FieldStart", 1 >>, << "FieldStart", 2 >>, << "Quoted", 0 >>,
           << "End", 2 >>, << "Unquoted", 0 >> >>]

\* a returned (fields, rows)
Counts(f, r) == [kind |-> "Counts", fields |-> f, rows |-> r]

\* parse_csv_state_machine, lines 135-144: the locals, the data copied
\* with the sentinel behind it
StateMachineStart(d) ==
    [buffer |-> d \o << Sentinel >>,
     i |-> 0,
     state |-> "FieldStart",
     fields |-> 0,
     rows |-> 0]

\* the loop of lines 145-166 goes on
StateMachineRuns(f) == f.i < Len(f.buffer) /\ f.state # "End"

\* one iteration of the loop, lines 146-161
StateMachineStep(f) ==
    LET class == classify_byte(At(f.buffer, f.i))
        next_state == TRANSITIONS[f.state][class + 1][1]
        action == TRANSITIONS[f.state][class + 1][2]
    IN  [f EXCEPT
            !.fields = IF action = 1 \/ action = 2 THEN f.fields + 1
                       ELSE f.fields,
            !.rows = IF action = 2 THEN f.rows + 1 ELSE f.rows,
            !.state = next_state,
            !.i = f.i + 1]

RECURSIVE StateMachineLoop(_)
StateMachineLoop(f) ==
    IF StateMachineRuns(f) THEN StateMachineLoop(StateMachineStep(f)) ELSE f

\* parse_csv_state_machine(data), lines 134-169
parse_csv_state_machine(d) ==
    LET f == StateMachineLoop(StateMachineStart(d))
    IN  Counts(f.fields, f.rows)

\* parse_csv_if_else, lines 269-274: the locals
IfElseStart ==
    [i |-> 0,
     in_quotes |-> FALSE,
     field_started |-> FALSE,
     fields |-> 0,
     rows |-> 0]

\* one iteration of the loop, lines 276-319
IfElseStep(d, f) ==
    LET byte == At(d, f.i)
    IN  IF byte = Quote
        THEN IF f.in_quotes
             THEN IF f.i + 1 < Len(d) /\ At(d, f.i + 1) = Quote
                  THEN [f EXCEPT !.i = f.i + 2]
                  ELSE [f EXCEPT !.in_quotes = FALSE, !.i = f.i + 1]
             ELSE [f EXCEPT !.in_quotes = TRUE, !.field_started = TRUE,
                            !.i = f.i + 1]
        ELSE IF byte = Comma
        THEN IF f.in_quotes
             THEN [f EXCEPT !.field_started = TRUE, !.i = f.i + 1]
             ELSE [f EXCEPT
                      !.fields = IF f.field_started \/ f.fields > 0
                                     \/ f.rows > 0
                                 THEN f.fields + 1 ELSE f.fields,
                      !.field_started = FALSE,
                      !.i = f.i + 1]
        ELSE IF byte = NL
        THEN IF f.in_quotes
             THEN [f EXCEPT !.field_started = TRUE, !.i = f.i + 1]
             ELSE [f EXCEPT
                      !.fields = IF f.field_started \/ f.fields > 0
                                 THEN f.fields + 1 ELSE f.fields,
                      !.rows = f.rows + 1,
                      !.field_started = FALSE,
                      !.i = f.i + 1]
        ELSE [f EXCEPT !.field_started = TRUE, !.i = f.i + 1]

\* lines 321-329: the last field of data that does not end with '\n'
IfElseFinish(f) ==
    IF f.field_started
    THEN Counts(f.fields + 1, IF f.rows = 0 THEN 1 ELSE f.rows)
    ELSE Counts(f.fields, f.rows)

RECURSIVE IfElseLoop(_, _)
IfElseLoop(d, f) ==
    IF f.i < Len(d) THEN IfElseLoop(d, IfElseStep(d, f)) ELSE f

\* parse_csv_if_else(data), lines 268-330
parse_csv_if_else(d) == IfElseFinish(IfElseLoop(d, IfElseStart))

\* lines 176-179 and 221-224: the locals of the two variants that read the
\* data in place
InPlaceStart ==
    [i |-> 0,
     state |-> "FieldStart",
     fields |-> 0,
     rows |-> 0]

\* TRANSITIONS has the four rows 0..3: TRANSITIONS[state as usize] of
\* lines 184 and 236 is in bounds unless the state is End (4)
RowInBounds(f) == f.state # "End"

\* one iteration of the loop of parse_csv_state_machine_no_copy,
\* lines 182-198
NoCopyStep(d, f) ==
    LET class == classify_byte(At(d, f.i))
        next_state == TRANSITIONS[f.state][class + 1][1]
        action == TRANSITIONS[f.state][class + 1][2]
    IN  [f EXCEPT
            !.fields = IF action = 1 \/ action = 2 THEN f.fields + 1
                       ELSE f.fields,
            !.rows = IF action = 2 THEN f.rows + 1 ELSE f.rows,
            !.state = next_state,
            !.i = f.i + 1]

\* lines 201-212: the end of the data
NoCopyFinish(f) ==
    IF f.state \in {"Unquoted", "QuoteInQuoted"}
    THEN Counts(f.fields + 1, f.rows + 1)
    ELSE Counts(f.fields, f.rows)

RECURSIVE NoCopyLoop(_, _)
NoCopyLoop(d, f) ==
    IF f.i < Len(d) /\ RowInBounds(f)
    THEN NoCopyLoop(d, NoCopyStep(d, f))
    ELSE f

\* parse_csv_state_machine_no_copy(data), lines 175-213
parse_csv_state_machine_no_copy(d) ==
    LET f == NoCopyLoop(d, InPlaceStart)
    IN  IF f.i < Len(d)
        THEN Panic("index out of bounds")
        ELSE NoCopyFinish(f)

\* ACTION_TABLE[state][class], lines 227-232
ACTION_TABLE ==
    [FieldStart |-> << 1, 3, 0, 0, 0 >>,
     Unquoted |-> << 1, 3, 0, 3, 0 >>,
     Quoted |-> << 0, 0, 0, 0, 0 >>,
     QuoteInQuoted |-> << 1, 3, 0, 3, 0 >>]

\* one iteration of the loop of parse_csv_state_machine_branchless,
\* lines 235-245
BranchlessStep(d, f) ==
    LET class == classify_byte(At(d, f.i))
        next_state == TRANSITIONS[f.state][class + 1][1]
        packed_action == ACTION_TABLE[f.state][class + 1]
    IN  [f EXCEPT
            !.fields = f.fields + (packed_action % 2),
            !.rows = f.rows + ((packed_action \div 2) % 2),
            !.state = next_state,
            !.i = f.i + 1]

\* lines 250-257: the end of the data
BranchlessFinish(f) ==
    LET is_unquoted == IF f.state = "Unquoted" THEN 1 ELSE 0
        is_quote_in_quoted == IF f.state = "QuoteInQuoted" THEN 1 ELSE 0
        should_count == IF is_unquoted + is_quote_in_quoted > 0 THEN 1
                        ELSE 0
    IN  Counts(f.fields + should_count, f.rows + should_count)

RECURSIVE BranchlessLoop(_, _)
BranchlessLoop(d, f) ==
    IF f.i < Len(d) /\ RowInBounds(f)
    THEN BranchlessLoop(d, BranchlessStep(d, f))
    ELSE f

\* parse_csv_state_machine_branchless(data), lines 220-258
parse_csv_state_machine_branchless(d) ==
    LET f == BranchlessLoop(d, InPlaceStart)
    IN  IF f.i < Len(d)
        THEN Panic("index out of bounds")
        ELSE BranchlessFinish(f)

CsvCalls ==
    {"parse_csv_state_machine", "parse_csv_if_else",
     "parse_csv_state_machine_no_copy",
     "parse_csv_state_machine_branchless"}

CsvInit ==
    /\ call \in CsvCalls
    /\ data \in SeqsUpTo(CsvAlphabet, MaxCsvLen)
    /\ frame = << >>
    /\ pc = "start"
    /\ result = NoResult
    /\ ScannerIdle

\* lines 135-144
StateMachineEnter ==
    /\ call = "parse_csv_state_machine"
    /\ pc = "start"
    /\ pc' = "loop"
    /\ frame' = StateMachineStart(data)
    /\ UNCHANGED << call, data, result, ScannerVars >>

\* lines 145-166, one iteration
StateMachineIterate ==
    /\ call = "parse_csv_state_machine"
    /\ pc = "loop"
    /\ StateMachineRuns(frame)
    /\ frame' = StateMachineStep(frame)
    /\ UNCHANGED << call, data, pc, result, ScannerVars >>

\* line 168
StateMachineReturn ==
    /\ call = "parse_csv_state_machine"
    /\ pc = "loop"
    /\ ~StateMachineRuns(frame)
    /\ pc' = "done"
    /\ result' = Counts(frame.fields, frame.rows)
    /\ UNCHANGED << call, data, frame, ScannerVars >>

\* lines 269-274
IfElseEnter ==
    /\ call = "parse_csv_if_else"
    /\ pc = "start"
    /\ pc' = "loop"
    /\ frame' = IfElseStart
    /\ UNCHANGED << call, data, result, ScannerVars >>

\* lines 275-319, one iteration
IfElseIterate ==
    /\ call = "parse_csv_if_else"
    /\ pc = "loop"
    /\ frame.i < Len(data)
    /\ frame' = IfElseStep(data, frame)
    /\ UNCHANGED << call, data, pc, result, ScannerVars >>

\* lines 321-329
IfElseReturn ==
    /\ call = "parse_csv_if_else"
    /\ pc = "loop"
    /\ ~(frame.i < Len(data))
    /\ pc' = "done"
    /\ result' = IfElseFinish(frame)
    /\ UNCHANGED << call, data, frame, ScannerVars >>

\* lines 176-179
NoCopyEnter ==
    /\ call = "parse_csv_state_machine_no_copy"
    /\ pc = "start"
    /\ pc' = "loop"
    /\ frame' = InPlaceStart
    /\ UNCHANGED << call, data, result, ScannerVars >>

\* lines 181-198, one iteration
NoCopyIterate ==
    /\ call = "parse_csv_state_machine_no_copy"
    /\ pc = "loop"
    /\ frame.i < Len(data)
    /\ RowInBounds(frame)
    /\ frame' = NoCopyStep(data, frame)
    /\ UNCHANGED << call, data, pc, result, ScannerVars >>

\* line 184 after a 0 byte: TRANSITIONS[4]
NoCopyPanic ==
    /\ call = "parse_csv_state_machine_no_copy"
    /\ pc = "loop"
    /\ frame.i < Len(data)
    /\ ~RowInBounds(frame)
    /\ pc' = "done"
    /\ result' = Panic("index out of bounds")
    /\ UNCHANGED << call, data, frame, ScannerVars >>

\* lines 200-212
NoCopyReturn ==
    /\ call = "parse_csv_state_machine_no_copy"
    /\ pc = "loop"
    /\ ~(frame.i < Len(data))
    /\ pc' = "done"
    /\ result' = NoCopyFinish(frame)
    /\ UNCHANGED << call, data, frame, ScannerVars >>

\* lines 221-232
BranchlessEnter ==
    /\ call = "parse_csv_state_machine_branchless"
    /\ pc = "start"
    /\ pc' = "loop"
    /\ frame' = InPlaceStart
    /\ UNCHANGED << call, data, result, ScannerVars >>

\* lines 234-246, one iteration
BranchlessIterate ==
    /\ call = "parse_csv_state_machine_branchless"
    /\ pc = "loop"
    /\ frame.i < Len(data)
    /\ RowInBounds(frame)
    /\ frame' = BranchlessStep(data, frame)
    /\ UNCHANGED << call, data, pc, result, ScannerVars >>

\* line 237 after a 0 byte: TRANSITIONS[4]
BranchlessPanic ==
    /\ call = "parse_csv_state_machine_branchless"
    /\ pc = "loop"
    /\ frame.i < Len(data)
    /\ ~RowInBounds(frame)
    /\ pc' = "done"
    /\ result' = Panic("index out of bounds")
    /\ UNCHANGED << call, data, frame, ScannerVars >>

\* lines 248-257
BranchlessReturn ==
    /\ call = "parse_csv_state_machine_branchless"
    /\ pc = "loop"
    /\ ~(frame.i < Len(data))
    /\ pc' = "done"
    /\ result' = BranchlessFinish(frame)
    /\ UNCHANGED << call, data, frame, ScannerVars >>

CsvNext ==
    \/ StateMachineEnter
    \/ StateMachineIterate
    \/ StateMachineReturn
    \/ IfElseEnter
    \/ IfElseIterate
    \/ IfElseReturn
    \/ NoCopyEnter
    \/ NoCopyIterate
    \/ NoCopyPanic
    \/ NoCopyReturn
    \/ BranchlessEnter
    \/ BranchlessIterate
    \/ BranchlessPanic
    \/ BranchlessReturn

CsvSpec == CsvInit /\ [][CsvNext]_vars

\* C12: for every input, parse_csv_state_machine and parse_csv_if_else
\* return the same (fields, rows).
C12_StateMachineEqualsIfElse ==
    (call = "parse_csv_state_machine" /\ pc = "done")
        => result = parse_csv_if_else(data)

\* the k bytes of the source before the read position, the last k bytes of
\* the chunk just searched, are a prefix of the pattern shorter than it
SourceSuffixIsPrefix(k) ==
    /\ k >= 1
    /\ k <= bytes_read
    /\ k <= pos
    /\ k <= Len(pattern) - 1
    /\ Slice(data, pos - k, pos) = Slice(pattern, 0, k)

\* C26: among the suffixes of the searched chunk that are shorter than the
\* pattern and are a prefix of it, the carry-over step keeps the longest:
\* the carry is such a suffix and no longer one exists.
C26_LongestSuffixCarried ==
    (call = "from_file" /\ pc = "read" /\ reads > 0)
        => /\ offset > 0 => SourceSuffixIsPrefix(offset)
           /\ \A k \in 1..Len(pattern) : SourceSuffixIsPrefix(k) => k <= offset
           /\ Slice(buffer, 0, offset) = Slice(data, pos - offset, pos)

\* C26 witness: two suffixes of the chunk are prefixes of the pattern and
\* the longer one is carried.
C26_Witness ==
    /\ call = "from_file"
    /\ pc = "read"
    /\ reads > 0
    /\ PatternFits
    /\ offset >= 2
    /\ \E k \in 1..(offset - 1) : SourceSuffixIsPrefix(k)

----------------------------------------------------------------------------
(* Two calls of count_pattern_matches_from_file on two regular files, on   *)
(* two threads of one process: frame.scans[i] holds the arguments and the  *)
(* locals of call i, frame.heap the allocations of the buffers             *)

\* one static buffer for every call
BufferStatic(i) == 1

\* line 48: vec![0u8; BUFFER_SIZE] is a new allocation for every call;
\* call i owns allocation i
BufferOf(i) == i

PairAlphabet == {RegularByte, NL}

PairSources == SeqsUpTo(PairAlphabet, MaxPairLen)

PairPatterns == SeqsUpTo({RegularByte}, MaxPairPat)

\* the arguments and locals when the call begins
ScanStart(d, pat) ==
    [data |-> d,
     pattern |-> pat,
     pc |-> "start",
     pos |-> 0,
     offset |-> 0,
     bytes_read |-> 0,
     line_count |-> 0,
     result |-> NoResult]

\* lines 43-53
ScanEnter(st, buf, cap) ==
    IF IsEmpty(st.pattern)
    THEN [scan |-> [st EXCEPT !.pc = "done", !.result = Ok(0)],
          buffer |-> buf]
    ELSE [scan |-> [st EXCEPT !.pc = "read"],
          buffer |-> ZeroVec(cap)]

\* lines 56-60 (and 98 on break) on a regular file
ScanRead(st, buf) ==
    LET n == Min(Len(buf) - st.offset, Len(st.data) - st.pos)
    IN  IF n + st.offset = 0
        THEN [scan |-> [st EXCEPT !.pc = "done",
                                  !.bytes_read = 0,
                                  !.result = Ok(st.line_count)],
              buffer |-> buf]
        ELSE [scan |-> [st EXCEPT !.pc = "search",
                                  !.bytes_read = n + st.offset,
                                  !.pos = st.pos + n,
                                  !.offset = 0],
              buffer |-> [j \in 1..Len(buf) |->
                             IF j > st.offset /\ j <= st.offset + n
                             THEN st.data[st.pos + j - st.offset]
                             ELSE buf[j]]]

\* lines 63-85
ScanSearch(st, buf, bld) ==
    LET r == SearchChunk(buf, st.bytes_read, st.pattern, bld, 0, 0)
    IN  [scan |-> IF r.panic = NoPanic
                  THEN [st EXCEPT !.pc = "carry",
                                  !.line_count = st.line_count + r.count]
                  ELSE [st EXCEPT !.pc = "done",
                                  !.line_count = st.line_count + r.count,
                                  !.result = Panic(r.panic)],
         buffer |-> buf]

\* lines 88-95
ScanCarry(st, buf) ==
    IF CarryCandidates(buf, st.bytes_read, st.pattern) = {}
    THEN [scan |-> [st EXCEPT !.pc = "read"], buffer |-> buf]
    ELSE LET i == CarryStart(buf, st.bytes_read, st.pattern)
         IN  [scan |-> [st EXCEPT !.pc = "read",
                                  !.offset = st.bytes_read - i],
              buffer |-> CopyWithin(buf, i, st.bytes_read)]

\* the next step of a call that has not returned
ScanStep(st, buf, cap, bld) ==
    CASE st.pc = "start" -> ScanEnter(st, buf, cap)
      [] st.pc = "read" -> ScanRead(st, buf)
      [] st.pc = "search" -> ScanSearch(st, buf, bld)
      [] st.pc = "carry" -> ScanCarry(st, buf)

\* history: the call is between its first and its last step
MidScan(st) == st.pc \in {"read", "search", "carry"}

PairInit ==
    /\ call = "concurrent"
    /\ data = << >>
    /\ build \in Builds
    /\ buffer_size \in 1..MaxPairCap
    /\ \E d1 \in PairSources, d2 \in PairSources,
          p1 \in PairPatterns, p2 \in PairPatterns :
            frame = [scans |-> << ScanStart(d1, p1), ScanStart(d2, p2) >>,
                     heap |-> << << >>, << >> >>,
                     overlapped |-> FALSE]
    /\ pc = "start"
    /\ result = NoResult
    /\ pattern = << >>
    /\ pos = 0
    /\ buffer = << >>
    /\ offset = 0
    /\ bytes_read = 0
    /\ last_read = 0
    /\ line_count = 0
    /\ reads = 0
    /\ io_error = "none"
    /\ straddled = FALSE

\* a step of call i, of the thread that runs it
PairStep(i) ==
    /\ call = "concurrent"
    /\ frame.scans[i].pc # "done"
    /\ LET next == ScanStep(frame.scans[i], frame.heap[BufferOf(i)],
                            buffer_size, build)
       IN  frame' = [scans |-> [frame.scans EXCEPT ![i] = next.scan],
                     heap |-> [frame.heap EXCEPT
                                  ![BufferOf(i)] = next.buffer],
                     overlapped |-> \/ frame.overlapped
                                    \/ MidScan(frame.scans[3 - i])]
    /\ UNCHANGED << call, data, pattern, buffer_size, build, pc, pos,
                    buffer, offset, bytes_read, last_read, line_count,
                    reads, result, io_error, straddled >>

PairNext == \E i \in {1, 2} : PairStep(i)

PairSpec == PairInit /\ [][PairNext]_vars

\* what call st returns when it runs alone
AloneResult(st) ==
    IF IsEmpty(st.pattern)
    THEN Ok(0)
    ELSE FullReadResult(st.data, st.pattern, buffer_size, build)

\* C21: two scans that run concurrently over independent sources share no
\* mutable state: under every interleaving of their steps each scan
\* returns what it returns when it runs alone.
C21_ConcurrentScansIndependent ==
    call = "concurrent"
        => \A i \in {1, 2} :
               frame.scans[i].pc = "done"
                   => frame.scans[i].result = AloneResult(frame.scans[i])

\* C21 witness: both scans returned, with different counts, after steps of
\* one scan fell between the steps of the other, each in its own buffer.
C21_Witness ==
    /\ call = "concurrent"
    /\ frame.overlapped
    /\ frame.scans[1].pc = "done"
    /\ frame.scans[2].pc = "done"
    /\ frame.scans[1].result = Ok(1)
    /\ frame.scans[2].result = Ok(0)
    /\ frame.heap[1] # frame.heap[2]
    /\ frame.heap[1] # << >>
    /\ frame.heap[2] # << >>

----------------------------------------------------------------------------
(* The final record of CSV data                                            *)

\* how many bytes of d are b
ByteCount(d, b) == Cardinality({j \in 1..Len(d) : d[j] = b})

\* non-empty data of commas, line feeds and regular bytes only
UnquotedData(d) ==
    /\ Len(d) > 0
    /\ \A j \in 1..Len(d) : d[j] \in {Comma, NL, RegularByte}

\* C22: both CSV parsers count a final record that has no trailing
\* newline: for non-empty unquoted input whose last byte is not '\n' the
\* returned rows is the number of '\n' bytes plus one, and for input that
\* ends in '\n' it is the number of '\n' bytes.
C22_FinalRecordCounted ==
    (call \in CsvCalls /\ pc = "done" /\ UnquotedData(data))
        => result.rows = ByteCount(data, NL)
                           + (IF data[Len(data)] = NL THEN 0 ELSE 1)

----------------------------------------------------------------------------
(* Bytes inside a quoted field                                             *)

\* the step leaves both counters as they are
CountersUnchanged ==
    /\ frame'.fields = frame.fields
    /\ frame'.rows = frame.rows

\* the state machine is about to consume byte b in state s
StateMachineAt(s, b) ==
    /\ call = "parse_csv_state_machine"
    /\ pc = "loop"
    /\ StateMachineRuns(frame)
    /\ frame.state = s
    /\ At(frame.buffer, frame.i) = b

\* the if/else parser is about to consume byte b inside quotes
IfElseInQuotesAt(b) ==
    /\ call = "parse_csv_if_else"
    /\ pc = "loop"
    /\ frame.i < Len(data)
    /\ frame.in_quotes
    /\ At(data, frame.i) = b

----------------------------------------------------------------------------
(* The three state-machine variants                                        *)

\* C24: for every input byte sequence, parse_csv_state_machine,
\* parse_csv_state_machine_no_copy and parse_csv_state_machine_branchless
\* return the same (fields, rows).
C24_VariantsAgree ==
    (call \in {"parse_csv_state_machine_no_copy",
               "parse_csv_state_machine_branchless"} /\ pc = "done")
        => result = parse_csv_state_machine(data)

----------------------------------------------------------------------------
(* One word of has_json_escapable_byte_swar                                *)

\* C25: for every 64-bit word x, has_json_escapable_byte_swar(x) is true
\* if and only if at least one of the 8 bytes of x is below 32, is 34 or
\* is 92: bytes of 128 and above never make it true, and the borrows of
\* the 64-bit subtractions from one byte lane into the next make it
\* neither true nor false wrongly.
C25_SwarWordExact ==
    (call = "has_json_escapable_byte_swar" /\ pc = "done")
        => result = Bool(\E j \in WordLanes :
                             data[j] < 32 \/ data[j] = 34 \/ data[j] = 92)

\* C25 witness: a word whose only escapable byte is a 92, with a 93 in the
\* lane above it, into which the subtraction borrows, and bytes of 160
\* and above in the other lanes, was found to have an escapable byte.
C25_Witness ==
    /\ call = "has_json_escapable_byte_swar"
    /\ pc = "done"
    /\ result = Bool(TRUE)
    /\ \E j \in 1..7 :
          /\ data[j] = 92
          /\ data[j + 1] = 93
          /\ \A k \in WordLanes \ {j, j + 1} : data[k] >= 160

====
